---------------------------- MODULE Spec2Model ----------------------------
(***************************************************************************)
(* Model of the socialweb support launcher: stage 1 (extract_url.py) turns *)
(* spreadsheet rows into a semicolon-delimited text file, stage 2          *)
(* (create_html.py) parses that file and renders the HTML directory.       *)
(*                                                                         *)
(* Python strings are TLA+ strings (sequences of characters); positions    *)
(* are 1-based here and 0-based in the source.                             *)
(***************************************************************************)
EXTENDS Integers, Sequences, FiniteSets, TLC

(***************************************************************************)
(* Bounds of the model.                                                    *)
(***************************************************************************)
\* number of tokens (see Tokens) an input url of the normalizer is made of
MaxTokens == 3

\* number of rows of a spreadsheet
MaxRows == 2

\* number of rows of the spreadsheet a run of both stages starts from
MaxPipelineRows == 1

\* number of lines of a text file after its header
MaxLines == 2

(***************************************************************************)
(* Python str operations used by the source.                               *)
(***************************************************************************)
Char(s, i) == SubSeq(s, i, i)

\* s[i:] for a 1-based i
From(s, i) == SubSeq(s, i, Len(s))

\* s[:i-1], i.e. the part before the 1-based position i
Before(s, i) == SubSeq(s, 1, i - 1)

startswith(s, p) == Len(p) <= Len(s) /\ SubSeq(s, 1, Len(p)) = p

endswith(s, p) == Len(p) <= Len(s) /\ SubSeq(s, Len(s) - Len(p) + 1, Len(s)) = p

\* the positions at which p occurs in s (occurrences may overlap)
Positions(s, p) == {i \in 1..(Len(s) - Len(p) + 1) : SubSeq(s, i, i + Len(p) - 1) = p}

\* Python: p in s
contains(s, p) == Positions(s, p) # {}

Min(S) == CHOOSE m \in S : \A n \in S : m <= n

Max(S) == CHOOSE m \in S : \A n \in S : n <= m

\* the member of a one-element set; Only({f(x) : x \in {e}}) is f(e) with e
\* computed once
Only(S) == CHOOSE x \in S : TRUE

\* Python: s.find(p, start); 0 stands for Python's -1
find(s, p, start) ==
    Only({IF At = {} THEN 0 ELSE Min(At) :
             At \in {{i \in Positions(s, p) : i >= start}}})

\* Python: s.rfind(p); 0 stands for Python's -1
rfind(s, p) == IF Positions(s, p) = {} THEN 0 ELSE Max(Positions(s, p))

\* Python: s.lstrip(chars) / s.rstrip(chars) / s.strip(chars), chars a set
RECURSIVE lstripChars(_, _)
lstripChars(s, cs) ==
    IF s = "" THEN ""
    ELSE IF Char(s, 1) \in cs THEN lstripChars(From(s, 2), cs)
    ELSE s

RECURSIVE rstripChars(_, _)
rstripChars(s, cs) ==
    IF s = "" THEN ""
    ELSE IF Char(s, Len(s)) \in cs THEN rstripChars(SubSeq(s, 1, Len(s) - 1), cs)
    ELSE s

stripChars(s, cs) == rstripChars(lstripChars(s, cs), cs)

\* the characters str.strip() removes, among those the model's inputs use
WHITESPACE == {" ", "\t", "\n", "\r"}

\* Python: s.strip()
strip(s) == stripChars(s, WHITESPACE)

\* Python: s.removeprefix(p)
removeprefix(s, p) == IF startswith(s, p) THEN From(s, Len(p) + 1) ELSE s

\* Python: s.replace(c, "") for a single character c
RECURSIVE removeChar(_, _)
removeChar(s, c) ==
    IF s = "" THEN ""
    ELSE IF Char(s, 1) = c THEN removeChar(From(s, 2), c)
         ELSE Char(s, 1) \o removeChar(From(s, 2), c)

\* Python: s.replace(p, "") for a non-empty p, leftmost occurrences first
RECURSIVE removeAll(_, _)
removeAll(s, p) ==
    Only({IF i = 0 THEN s
          ELSE Before(s, i) \o removeAll(From(s, i + Len(p)), p) :
             i \in {find(s, p, 1)}})

\* TLC keeps a string of a state as 8-bit characters of which only the 7-bit
\* ones are kept as they are, so the letters beyond ASCII of the program's
\* texts are written with stand-ins that occur nowhere else in the model's
\* strings: { is a-umlaut, | is o-umlaut, } is u-umlaut, and ^ $ ~ are
\* their capitals.  "Erg{nzung" is the header's "Ergaenzung" with a-umlaut.
\* & is the ligature st (U+FB06), a lower case letter whose upper() is the
\* two letters "ST".
UPPERCASE == "ABCDEFGHIJKLMNOPQRSTUVWXYZ^$~"

LOWERCASE == "abcdefghijklmnopqrstuvwxyz{|}"

\* Python: c.lower() / c.upper() for one character
upper_to_lower ==
    [c \in {Char(UPPERCASE, k) : k \in 1..Len(UPPERCASE)} |->
        Char(LOWERCASE, find(UPPERCASE, c, 1))]

lower_to_upper ==
    [c \in {Char(LOWERCASE, k) : k \in 1..Len(LOWERCASE)} |->
        Char(UPPERCASE, find(LOWERCASE, c, 1))]

lowerChar(c) == IF c \in DOMAIN upper_to_lower THEN upper_to_lower[c] ELSE c

upperChar(c) ==
    IF c = "&" THEN "ST"
    ELSE IF c \in DOMAIN lower_to_upper THEN lower_to_upper[c] ELSE c

\* Python: s.lower()
RECURSIVE lower(_)
lower(s) == IF s = "" THEN "" ELSE lowerChar(Char(s, 1)) \o lower(From(s, 2))

(***************************************************************************)
(* urllib.parse.urlparse, as URLProcessor.add_support_path uses it.  The   *)
(* model's urls hold no ']' and no non-ASCII character in the host, so of  *)
(* the netloc checks only the unbalanced-bracket one can fire.             *)
(***************************************************************************)
WHATWG_C0_CONTROL_OR_SPACE == {" ", "\t", "\n", "\r"}

UNSAFE_URL_BYTES_TO_REMOVE == <<"\t", "\r", "\n">>

scheme_chars == "abcdefghijklmnopqrstuvwxyzABCDEFGHIJKLMNOPQRSTUVWXYZ0123456789+-."

ascii_letters == "abcdefghijklmnopqrstuvwxyzABCDEFGHIJKLMNOPQRSTUVWXYZ"

\* position of the end of the domain part: the earliest of '/', '?', '#'
\* at or after start, or one past the end
splitnetlocDelim(url, start) ==
    LET Ds == {find(url, c, start) : c \in {"/", "?", "#"}} \ {0}
    IN  IF Ds = {} THEN Len(url) + 1 ELSE Min(Ds)

\* urlsplit: the url without leading C0 control or space and without tab,
\* CR and LF
strip_unsafe(url) ==
    removeChar(removeChar(removeChar(
        lstripChars(url, WHATWG_C0_CONTROL_OR_SPACE),
        UNSAFE_URL_BYTES_TO_REMOVE[1]),
        UNSAFE_URL_BYTES_TO_REMOVE[2]),
        UNSAFE_URL_BYTES_TO_REMOVE[3])

\* urlsplit: <<scheme, rest>>
split_scheme(url) ==
    IF /\ find(url, ":", 1) > 1
       /\ contains(ascii_letters, Char(url, 1))
       /\ \A k \in 1..(find(url, ":", 1) - 1) : contains(scheme_chars, Char(url, k))
    THEN <<lower(Before(url, find(url, ":", 1))), From(url, find(url, ":", 1) + 1)>>
    ELSE <<"", url>>

\* urlsplit with _splitnetloc: <<netloc, rest>>
split_netloc(url) ==
    IF SubSeq(url, 1, 2) = "//"
    THEN <<SubSeq(url, 3, splitnetlocDelim(url, 3) - 1),
           From(url, splitnetlocDelim(url, 3))>>
    ELSE <<"", url>>

\* urlsplit: the "Invalid IPv6 URL" test
invalid_netloc(netloc) ==
    \/ contains(netloc, "[") /\ ~contains(netloc, "]")
    \/ contains(netloc, "]") /\ ~contains(netloc, "[")

\* url.split(sep, 1): <<before, after>>, after empty without sep
split_once(url, sep) ==
    IF contains(url, sep)
    THEN <<Before(url, find(url, sep, 1)), From(url, find(url, sep, 1) + 1)>>
    ELSE <<url, "">>

\* urlsplit(url): [raised, scheme, netloc, path, query, fragment]
urlsplit(url0) ==
    Only({Only({Only({Only({
        [raised |-> invalid_netloc(nl[1]), scheme |-> sr[1], netloc |-> nl[1],
         path |-> pq[1], query |-> pq[2], fragment |-> pf[2]]
            : pq \in {split_once(pf[1], "?")}})
            : pf \in {split_once(nl[2], "#")}})
            : nl \in {split_netloc(sr[2])}})
            : sr \in {split_scheme(strip_unsafe(url0))}})

uses_params == {"", "ftp", "hdl", "prospero", "http", "imap", "https", "shttp",
                "rtsp", "rtsps", "rtspu", "sip", "sips", "mms", "sftp", "tel"}

\* _splitparams(url): the path without the parameters of its last segment
splitparamsPath(url) ==
    LET i == IF contains(url, "/") THEN find(url, ";", rfind(url, "/"))
             ELSE find(url, ";", 1)
    IN  IF i = 0 THEN url ELSE Before(url, i)

\* urlparse(url): urlsplit plus the split of the path's parameters
with_params_split(s) ==
    IF s.scheme \in uses_params /\ contains(s.path, ";")
    THEN [s EXCEPT !.path = splitparamsPath(s.path)]
    ELSE s

urlparse(url) == Only({with_params_split(s) : s \in {urlsplit(url)}})

(***************************************************************************)
(* URLProcessor (stage 1).  A call either returns a string or raises the   *)
(* ValueError of urlparse: [raised |-> FALSE, value |-> the string] or     *)
(* [raised |-> TRUE, value |-> "ValueError"].                              *)
(***************************************************************************)
SUPPORT_PATH == "/login/support/"

REMOVE_PREFIXES == <<"https://", "http://", "www.">>

Return(s) == [raised |-> FALSE, value |-> s]

Raise == [raised |-> TRUE, value |-> "ValueError"]

\* URLProcessor.clean_url: each prefix is removed at most once, in order
clean_url(url) ==
    IF url = "" THEN ""
    ELSE removeprefix(removeprefix(removeprefix(strip(url),
             REMOVE_PREFIXES[1]), REMOVE_PREFIXES[2]), REMOVE_PREFIXES[3])

\* a faulty variant of the test below: the sub-path is looked for only with
\* its trailing slash
has_support_path_slash_only(cleaned) == contains(cleaned, "/login/support/")

\* the "support path already exists" test of add_support_path
has_support_path(cleaned) ==
    contains(cleaned, SUPPORT_PATH) \/ endswith(cleaned, "/login/support")

\* faulty variants of the step below: the sub-path is never appended, or is
\* appended whatever the path holds
build_new_path_never(current_path) ==
    IF current_path # "" THEN "/" \o current_path ELSE ""

build_new_path_always(current_path) ==
    IF current_path # "" THEN "/" \o current_path \o "/login/support/"
    ELSE "/login/support/"

\* the "build new path" step of add_support_path
build_new_path(current_path) ==
    IF contains(current_path, "login/support")
    THEN (IF current_path # "" THEN "/" \o current_path ELSE "")
    ELSE (IF current_path # "" THEN "/" \o current_path \o SUPPORT_PATH
          ELSE SUPPORT_PATH)

\* the "reconstruct URL" step of add_support_path
reconstruct(parsed, new_path) ==
    removeprefix(parsed.netloc, "www.") \o new_path
        \o (IF parsed.query # "" THEN "?" \o parsed.query ELSE "")
        \o (IF parsed.fragment # "" THEN "#" \o parsed.fragment ELSE "")

\* add_support_path from "# Parse URL" on, parsed the result of urlparse
add_to_parsed(cleaned, parsed) ==
    IF parsed.raised THEN Raise
    ELSE IF parsed.netloc = ""
    THEN Return(rstripChars(cleaned, {"/"}) \o SUPPORT_PATH)
    ELSE Return(reconstruct(parsed, build_new_path(stripChars(parsed.path, {"/"}))))

\* add_support_path from "# Check if support path already exists" on
add_to_cleaned(cleaned) ==
    IF has_support_path(cleaned) THEN Return(cleaned)
    ELSE Only({add_to_parsed(cleaned, parsed) :
                  parsed \in {urlparse("https://" \o cleaned)}})

\* URLProcessor.add_support_path for a str argument
add_support_path(url0) ==
    IF url0 = "" THEN Return("")
    ELSE IF strip(url0) = "" THEN Return("")
    ELSE Only({add_to_cleaned(cleaned) : cleaned \in {clean_url(strip(url0))}})

(***************************************************************************)
(* Collaborator: the DataFrame pandas.read_excel returns.  A column label  *)
(* is a str or a number, a cell is NaN (empty) or a value, kept as its     *)
(* str().                                                                  *)
(***************************************************************************)
NaN == [isna |-> TRUE, str |-> "nan"]

Cell(s) == [isna |-> FALSE, str |-> s]

Label(s) == [isstr |-> TRUE, str |-> s]

NumberLabel(s) == [isstr |-> FALSE, str |-> s]

\* Python: s.split(sep) for a one-character sep
RECURSIVE split(_, _)
split(s, sep) ==
    Only({IF i = 0 THEN <<s>>
          ELSE <<Before(s, i)>> \o split(From(s, i + 1), sep) :
             i \in {find(s, sep, 1)}})

\* the characters of the model's strings in code point order (the double
\* quote and the backslash occur in none; the stand-ins of the letters
\* beyond ASCII come last, as those letters do)
CODE_ORDER == "\t\n\r !#%'()*+,-./0123456789:;<=>?@ABCDEFGHIJKLMNOPQRSTUVWXYZ[]_abcdefghijklmnopqrstuvwxyz^$~{|}&"

code_points ==
    [c \in {Char(CODE_ORDER, k) : k \in 1..Len(CODE_ORDER)} |->
        find(CODE_ORDER, c, 1)]

ord(c) == code_points[c]

\* Python: a < b on str (lexicographic by code point)
RECURSIVE strLess(_, _)
strLess(a, b) ==
    IF b = "" THEN FALSE
    ELSE IF a = "" THEN TRUE
    ELSE IF Char(a, 1) = Char(b, 1) THEN strLess(From(a, 2), From(b, 2))
    ELSE ord(Char(a, 1)) < ord(Char(b, 1))

(***************************************************************************)
(* ExcelExtractor (stage 1).                                               *)
(***************************************************************************)
\* ExcelExtractor.COLUMN_MAPPING, in dict order: <<field, keywords>>
COLUMN_MAPPING == <<
    <<"anzeigename", {"anzeigename"}>>,
    <<"ergaenzung", {"erg{nzung"}>>,
    <<"webadresse", {"webadresse"}>>,
    <<"projektleitung", {"projekt", "zust{ndigkeit"}>> >>

\* does column label col resolve field? (the inner test of map_columns)
column_matches(field, keywords, col) ==
    /\ \E keyword \in keywords : contains(lower(col.str), keyword)
    /\ ~(field = "anzeigename" /\ contains(lower(col.str), "erg{nzung"))

\* the scan of df.columns for one field: "raise" when col.lower() meets a
\* label that is no str before a match, else the matched position or 0
scan_columns(field, keywords, columns) ==
    LET Stop == {c \in 1..Len(columns) :
                    \/ ~columns[c].isstr
                    \/ column_matches(field, keywords, columns[c])}
    IN  IF Stop = {} THEN [raised |-> FALSE, col |-> 0]
        ELSE IF ~columns[Min(Stop)].isstr THEN [raised |-> TRUE, col |-> 0]
        ELSE [raised |-> FALSE, col |-> Min(Stop)]

\* ExcelExtractor.map_columns: [raised, ok, map], map[k] the position of the
\* column resolved for the k-th field of COLUMN_MAPPING
RECURSIVE map_columns_from(_, _, _)
map_columns_from(k, columns, map) ==
    IF k > Len(COLUMN_MAPPING) THEN [raised |-> FALSE, ok |-> TRUE, map |-> map]
    ELSE LET r == scan_columns(COLUMN_MAPPING[k][1], COLUMN_MAPPING[k][2], columns)
         IN  IF r.raised THEN [raised |-> TRUE, ok |-> FALSE, map |-> map]
             ELSE IF r.col = 0 THEN [raised |-> FALSE, ok |-> FALSE, map |-> map]
             ELSE map_columns_from(k + 1, columns, Append(map, r.col))

map_columns(columns) == map_columns_from(1, columns, <<>>)

FieldIndex(field) ==
    CHOOSE k \in 1..Len(COLUMN_MAPPING) : COLUMN_MAPPING[k][1] = field

\* ExcelExtractor._get_value
get_value(row, map, field, default) ==
    LET value == row[map[FieldIndex(field)]]
    IN  IF ~value.isna THEN strip(value.str) ELSE default

\* urls = [url.strip() for url in str(webadresse).split(',')], those that
\* pass the filter of the inner loop
row_urls(webadresse) ==
    {url \in {strip(part) : part \in
                 {split(webadresse, ",")[k] : k \in 1..Len(split(webadresse, ","))}} :
        url # "" /\ contains(lower(url), "socialweb.ch")}

\* the inner loop of extract_entries: the tuples of one row with the results
\* of add_support_path for its urls, or the exception one of them raised
row_entries(anzeigename, ergaenzung, projektleitung, results) ==
    IF \E r \in results : r.raised
    THEN [raised |-> TRUE, entries |-> {}]
    ELSE [raised |-> FALSE,
          entries |-> {<<strip(anzeigename), strip(ergaenzung), r.value,
                         strip(projektleitung)>> : r \in results}]

\* the body of the loop of extract_entries for one row: the tuples it adds,
\* or the exception add_support_path raised
extract_row(row, map) ==
    IF ~(~row[map[FieldIndex("webadresse")]].isna
         /\ contains(lower(row[map[FieldIndex("webadresse")]].str), "socialweb.ch"))
    THEN [raised |-> FALSE, entries |-> {}]
    ELSE Only({row_entries(get_value(row, map, "anzeigename", ""),
                           get_value(row, map, "ergaenzung", ""),
                           get_value(row, map, "projektleitung", "Unbekannt"),
                           results) :
                 results \in {{add_support_path(url) :
                     url \in row_urls(row[map[FieldIndex("webadresse")]].str)}}})

\* ExcelExtractor.extract_entries: the set of 4-tuples of all rows
merge_rows(results) ==
    IF \E r \in results : r.raised
    THEN [raised |-> TRUE, entries |-> {}]
    ELSE [raised |-> FALSE, entries |-> UNION {r.entries : r \in results}]

extract_entries(rows, map) ==
    Only({merge_rows(results) :
             results \in {{extract_row(rows[k], map) : k \in 1..Len(rows)}}})

\* CustomURLProvider.get_custom_entries
get_custom_entries == <<
    <<"Oberli Pascal", "POB", "pob.socialweb.ch/", "Oberli Pascal">>,
    <<"Fonseka Pius", "PIF", "pif.socialweb.ch/", "Fonseka Pius">>,
    <<"Fl}ckiger Simon", "SIM", "sim.socialweb.ch/", "Fl}ckiger Simon">>,
    <<"Lehmann Sandra", "SAL", "sal.socialweb.ch/", "Lehmann Sandra">>,
    <<"Ambrosetti Chiara", "CHA", "cha.socialweb.ch/", "Ambrosetti Chiara">>,
    <<"Moix Xenia", "XEM", "xem.socialweb.ch/", "Moix Xenia">>,
    <<"Toma Marijana", "MAT", "mat.socialweb.ch/", "Toma Marijana">>,
    <<"Daniel Schmocker", "DAS", "das.socialweb.ch/", "Daniel Schmocker">>,
    <<"Team", "Team", "team.socialweb.ch/", "Team">>,
    <<"Standard", "Standard", "standard.socialweb.ch/", "Standard">>,
    <<"Handbuch", "Handbuch", "handbuch.socialweb.ch/", "Handbuch">> >>

\* a faulty variant of the loop below: the static urls are added as they are
add_custom_entries_raw(entries) ==
    entries \cup {get_custom_entries[k] : k \in 1..Len(get_custom_entries)}

\* the "add custom URLs" loop of process_excel_to_txt (no static url makes
\* add_support_path raise)
add_custom_entries(entries) ==
    entries \cup {<<e[1], e[2], add_support_path(e[3]).value, e[4]>> :
                     e \in {get_custom_entries[k] : k \in 1..Len(get_custom_entries)}}

\* the sort key of process_excel_to_txt
sort_key(entry) == lower(entry[1])

\* the sequences that list the members of S once each
RECURSIVE orderings(_)
orderings(S) ==
    IF S = {} THEN {<<>>}
    ELSE UNION {{<<e>> \o p : p \in orderings(S \ {e})} : e \in S}

\* the least key of a non-empty set of <<key, entry>> pairs
least_key(P) ==
    Only({CHOOSE a \in K : \A b \in K : ~strLess(b, a) :
             K \in {{pair[1] : pair \in P}}})

\* the orders of the entries of the pairs P that are non-decreasing in the
\* key, entries of equal key in any order
RECURSIVE key_orders(_)
key_orders(P) ==
    IF P = {} THEN {<<>>}
    ELSE UNION {{p \o rest : p \in orderings({pair[2] : pair \in G}),
                             rest \in key_orders(P \ G)} :
                   G \in {{pair \in P : pair[1] = least} : least \in {least_key(P)}}}

\* a faulty variant of the sort below: one record is kept per sort key
sorted_orders_by_key(S) ==
    key_orders({<<k, CHOOSE e \in S : sort_key(e) = k>> : k \in {sort_key(e) : e \in S}})

\* sorted(list(entries), key=lambda x: x[0].lower()): list(entries) is the
\* set in its iteration order, which follows the str hashes of the process,
\* and the sort is stable: every order that is non-decreasing in the key,
\* with the records of equal key in any order, is a result
sorted_orders(S) == key_orders({<<sort_key(e), e>> : e \in S})

\* TXTExporter.HEADER, without its line break: a file is the sequence of its
\* lines
HEADER == "Anzeigename;Erg{nzung Anzeigename;Webadresse Gesch{ftlich;Projektleitung / Zust{ndigkeit"

\* the line TXTExporter.export writes for one entry
entry_line(entry) ==
    entry[1] \o ";" \o entry[2] \o ";" \o entry[3] \o ";" \o entry[4]

\* the bytes f.write puts into the file for one character (encoding='utf-8')
utf8_len(c) ==
    IF c = "&" THEN 3
    ELSE IF contains("{|}^$~", c) THEN 2
    ELSE 1

\* what the first bytes of a line, none to all of them, can be: the
\* characters that are whole, and whether the bytes end with a whole
\* character (they do not when they end inside a character of several bytes)
line_cuts(line) ==
    {[text |-> SubSeq(line, 1, i), decodable |-> TRUE] : i \in 0..Len(line)}
    \cup {[text |-> SubSeq(line, 1, i - 1), decodable |-> FALSE] :
              i \in {j \in 1..Len(line) : utf8_len(Char(line, j)) > 1}}

\* the file a failed write leaves: whole lines and the bytes of a cut line
cut_file(lines, cut) ==
    [exists |-> TRUE, readable |-> cut.decodable, lines |-> lines,
     rest |-> cut.text]

\* the lines of a complete export
export_lines(sorted_entries) ==
    <<HEADER>> \o [k \in 1..Len(sorted_entries) |-> entry_line(sorted_entries[k])]

(***************************************************************************)
(* Entry and TXTParser (stage 2).                                          *)
(***************************************************************************)
\* Entry._normalize_url
normalize_url(url) ==
    IF url # "" /\ ~(startswith(url, "http://") \/ startswith(url, "https://"))
    THEN "https://" \o url
    ELSE url

\* webadresse.replace('https://', '').replace('http://', '')
without_scheme(url) == removeAll(removeAll(url, "https://"), "http://")

\* Entry.__init__ with Entry._compute_sort_string, _compute_display_name and
\* _compute_search_text
Entry(anzeigename0, ergaenzung0, webadresse0, projektleitung0) ==
    Only({
      Only({[anzeigename |-> anzeigename,
             ergaenzung |-> ergaenzung,
             webadresse |-> webadresse,
             projektleitung |-> strip(projektleitung0),
             sort_string |-> IF anzeigename # "" THEN anzeigename ELSE bare,
             display_name |-> IF anzeigename # "" THEN anzeigename ELSE bare,
             search_text |-> anzeigename \o " " \o ergaenzung \o " " \o bare] :
                bare \in {without_scheme(webadresse)}}) :
          anzeigename \in {strip(anzeigename0)},
          ergaenzung \in {strip(ergaenzung0)},
          webadresse \in {normalize_url(strip(webadresse0))}})

ascii_uppercase == "ABCDEFGHIJKLMNOPQRSTUVWXYZ"

\* Entry.get_first_letter
get_first_letter(entry) ==
    LET first_char == IF entry.sort_string # ""
                      THEN upperChar(Char(entry.sort_string, 1)) ELSE "#"
    IN  IF contains(ascii_uppercase, first_char) THEN first_char ELSE "#"

\* a variant of the loop body that wants all four fields on a line
parse_line_four(line0) ==
    Only({IF line = "" THEN <<>>
          ELSE Only({IF Len(parts) >= 4 /\ (parts[1] # "" \/ parts[3] # "")
                     THEN <<Entry(parts[1], parts[2], parts[3], parts[4])>>
                     ELSE <<>> :
                        parts \in {split(line, ";")}}) :
             line \in {strip(line0)}})

\* the body of the loop of TXTParser.parse for one line: the entries it
\* appends (none or one)
parse_line(line0) ==
    Only({IF line = "" THEN <<>>
          ELSE Only({IF Len(parts) >= 3
                     THEN IF parts[1] # "" \/ parts[3] # ""
                          THEN <<Entry(parts[1], parts[2], parts[3],
                                       IF Len(parts) > 3 THEN parts[4] ELSE "")>>
                          ELSE <<>>
                     ELSE <<>> :
                        parts \in {split(line, ";")}}) :
             line \in {strip(line0)}})

RECURSIVE parse_lines(_)
parse_lines(lines) ==
    IF lines = <<>> THEN <<>>
    ELSE parse_line(Head(lines)) \o parse_lines(Tail(lines))

\* f.readlines(): the lines that end with a line break, then the characters
\* after the last line break if there are any
read_lines(file) ==
    file.lines \o (IF file.rest # "" THEN <<file.rest>> ELSE <<>>)

\* TXTParser.parse: a file that is missing or cannot be read or decoded
\* gives []
parse(file) ==
    IF ~file.exists \/ ~file.readable THEN <<>>
    ELSE IF read_lines(file) = <<>> THEN <<>>
    ELSE parse_lines(Tail(read_lines(file)))

(***************************************************************************)
(* HTMLGenerator (stage 2).  The document is kept as its navigation        *)
(* entries, its sections and the record count of its footer.               *)
(***************************************************************************)
\* sorted(entries, key=lambda e: e.sort_string.lower()): the key of each entry
\* is computed once, then a stable sort of the <<key, entry>> pairs
RECURSIVE insert_sorted(_, _)
insert_sorted(sorted, pair) ==
    IF sorted = <<>> THEN <<pair>>
    ELSE IF strLess(pair[1], Head(sorted)[1])
         THEN <<pair>> \o sorted
         ELSE <<Head(sorted)>> \o insert_sorted(Tail(sorted), pair)

RECURSIVE sort_pairs(_)
sort_pairs(pairs) ==
    IF pairs = <<>> THEN <<>>
    ELSE Only({insert_sorted(sorted, pairs[Len(pairs)]) :
                  sorted \in {sort_pairs(SubSeq(pairs, 1, Len(pairs) - 1))}})

entries_of(pairs) == [k \in 1..Len(pairs) |-> pairs[k][2]]

sort_entries(entries) ==
    Only({entries_of(sorted) :
             sorted \in {sort_pairs([k \in 1..Len(entries) |->
                            <<lower(entries[k].sort_string), entries[k]>>])}})

\* the entries of one letter, in the order of seq; letters[k] is the letter
\* of seq[k]
RECURSIVE bucket(_, _, _)
bucket(seq, letters, letter) ==
    IF seq = <<>> THEN <<>>
    ELSE (IF Head(letters) = letter THEN <<Head(seq)>> ELSE <<>>)
             \o bucket(Tail(seq), Tail(letters), letter)

\* letter = entry.get_first_letter() of each entry
first_letters(entries) == [k \in 1..Len(entries) |-> get_first_letter(entries[k])]

\* HTMLGenerator._group_entries: the keys of the dict
grouped_keys(letters) == {letters[k] : k \in 1..Len(letters)}

\* HTMLGenerator._group_entries: the dict, a function from its keys to lists
grouped_of_sorted(sorted) ==
    Only({[letter \in grouped_keys(letters) |-> bucket(sorted, letters, letter)] :
             letters \in {first_letters(sorted)}})

group_entries(entries) ==
    Only({grouped_of_sorted(sorted) : sorted \in {sort_entries(entries)}})

\* HTMLGenerator._get_navigation: 26 letters, then '#'
get_navigation(grouped) ==
    [k \in 1..(Len(ascii_uppercase) + 1) |->
        IF k <= Len(ascii_uppercase)
        THEN [label |-> Char(ascii_uppercase, k),
              href |-> IF Char(ascii_uppercase, k) \in DOMAIN grouped
                       THEN "#" \o Char(ascii_uppercase, k) ELSE ""]
        ELSE [label |-> "#",
              href |-> IF "#" \in DOMAIN grouped THEN "#num" ELSE ""]]

\* sorted(self.grouped.keys()): the keys in code point order
RECURSIVE sorted_keys(_)
sorted_keys(K) ==
    IF K = {} THEN <<>>
    ELSE Only({<<least>> \o sorted_keys(K \ {least}) :
                  least \in {CHOOSE a \in K : \A b \in K : ~strLess(b, a)}})

\* HTMLGenerator._render_entry: what the list item shows
render_entry(entry) ==
    Only({[search_text |-> entry.search_text,
           href |-> entry.webadresse,
           title |-> entry.display_name,
           meta |-> (IF entry.ergaenzung # "" THEN <<entry.ergaenzung>> ELSE <<>>)
                       \o (IF entry.webadresse # "" /\ bare # ""
                           THEN <<bare>> ELSE <<>>)] :
             bare \in {without_scheme(entry.webadresse)}})

\* HTMLGenerator._get_content
section(grouped, letter) ==
    [id |-> IF letter = "#" THEN "num" ELSE letter,
     heading |-> letter,
     items |-> [j \in 1..Len(grouped[letter]) |-> render_entry(grouped[letter][j])]]

sections_of(grouped, keys) ==
    [k \in 1..Len(keys) |-> section(grouped, keys[k])]

get_content(grouped) ==
    Only({sections_of(grouped, keys) : keys \in {sorted_keys(DOMAIN grouped)}})

\* the document HTMLGenerator.generate writes for HTMLGenerator(entries)
document_of(entries, grouped) ==
    [navigation |-> get_navigation(grouped),
     sections |-> get_content(grouped),
     total_entries |-> Len(entries)]

html_document(entries) ==
    Only({document_of(entries, grouped) : grouped \in {group_entries(entries)}})

(***************************************************************************)
(* State.                                                                  *)
(***************************************************************************)
VARIABLES
    upc,            \* normalizer runs: "input", "once", "twice"
    url_in,         \* the raw address handed to add_support_path
    res1,           \* add_support_path(url_in)
    res2,           \* add_support_path applied to the value of res1
    pc,             \* where process_excel_to_txt is
    sheet,          \* the spreadsheet: [load, columns, rows]
    column_map,     \* ExcelExtractor.column_map
    entries,        \* the set of 4-tuples
    sorted_entries, \* the sorted list handed to TXTExporter.export
    txt_file,       \* socialweb_export.txt: [exists, readable, lines, rest]
    result1,        \* how process_excel_to_txt ended: "True", "False", "raised"
    txt_before,     \* socialweb_export.txt when the run of stage 1 began
    first_run,      \* the lines the first of two successful runs wrote
    pc2,            \* where generate_html is
    parsed,         \* the list TXTParser.parse returned
    html_file,      \* soc-support-tenant-liste.html: [exists, complete, doc]
    html_before,    \* that file when generate_html began
    result2         \* how generate_html ended: "True", "False"

url_vars == <<upc, url_in, res1, res2>>

stage1_vars == <<pc, sheet, column_map, entries, sorted_entries, result1,
                 txt_before, first_run>>

stage2_vars == <<pc2, parsed, html_file, html_before, result2>>

vars == <<url_vars, stage1_vars, txt_file, stage2_vars>>

NoResult == [raised |-> FALSE, value |-> "<none>"]

NoFile == [exists |-> FALSE, readable |-> FALSE, lines |-> <<>>, rest |-> ""]

TextFile(lines) ==
    [exists |-> TRUE, readable |-> TRUE, lines |-> lines, rest |-> ""]

NoHtml == [exists |-> FALSE, complete |-> FALSE, doc |-> <<>>]

\* what the parts of the state hold while their program is not run
UrlIdle ==
    /\ upc = "off"
    /\ url_in = ""
    /\ res1 = NoResult
    /\ res2 = NoResult

Stage1Idle ==
    /\ pc = "off"
    /\ sheet = [load |-> "missing", columns |-> <<>>, rows |-> <<>>]
    /\ column_map = <<>>
    /\ entries = {}
    /\ sorted_entries = <<>>
    /\ result1 = "none"
    /\ txt_before = NoFile
    /\ first_run = <<>>

Stage2Idle ==
    /\ pc2 = "off"
    /\ parsed = <<>>
    /\ html_file = NoHtml
    /\ html_before = NoHtml
    /\ result2 = "none"

(***************************************************************************)
(* SpecURL: the url normalizer applied to an input and then to its result. *)
(***************************************************************************)
\* the pieces the model's input urls are made of
Tokens == {"https://", "http://", "www.", "a.ch", "/", "/login/support",
           "login/support", "/login/support\t/", "?", "#", " ", "\t", "[", ";"}

RECURSIVE Compose(_)
Compose(n) ==
    IF n = 0 THEN {""}
    ELSE LET P == Compose(n - 1) IN P \cup {p \o t : p \in P, t \in Tokens}

Urls == Compose(MaxTokens)

InitURL ==
    /\ upc = "input"
    /\ url_in \in Urls
    /\ res1 = NoResult
    /\ res2 = NoResult
    /\ Stage1Idle
    /\ txt_file = NoFile
    /\ Stage2Idle

\* modified_url = URLProcessor.add_support_path(url)
Normalize ==
    /\ upc = "input"
    /\ res1' = add_support_path(url_in)
    /\ upc' = "once"
    /\ UNCHANGED <<url_in, res2, stage1_vars, txt_file, stage2_vars>>

\* the normalizer applied to a url it produced
Renormalize ==
    /\ upc = "once"
    /\ ~res1.raised
    /\ res2' = add_support_path(res1.value)
    /\ upc' = "twice"
    /\ UNCHANGED <<url_in, res1, stage1_vars, txt_file, stage2_vars>>

NextURL == Normalize \/ Renormalize

SpecURL == InitURL /\ [][NextURL]_vars

(***************************************************************************)
(* Stage 1: process_excel_to_txt.                                          *)
(***************************************************************************)
\* the layouts of the model's spreadsheets: the column labels, and which
\* field of a record each column holds
StandardLayout ==
    [columns |-> <<Label("Anzeigename"), Label("Erg{nzung Anzeigename"),
                   Label("Webadresse Gesch{ftlich"),
                   Label("Projektleitung / Zust{ndigkeit")>>,
     holds |-> <<"name", "annotation", "url", "owner">>]

Layouts == {
    StandardLayout,
    [columns |-> <<Label("Erg{nzung Anzeigename"), Label("ANZEIGENAME"),
                   Label("Webadresse"), Label("Zust{ndigkeit")>>,
     holds |-> <<"annotation", "name", "url", "owner">>],
    [columns |-> <<Label("Anzeigename"), Label("Erg{nzung Anzeigename"),
                   Label("Webadresse Gesch{ftlich")>>,
     holds |-> <<"name", "annotation", "url">>],
    [columns |-> <<NumberLabel("2024"), Label("Anzeigename"),
                   Label("Erg{nzung Anzeigename"), Label("Webadresse"),
                   Label("Projekt")>>,
     holds |-> <<"owner", "name", "annotation", "url", "owner">>] }

Record(name, annotation, url, owner) ==
    [name |-> name, annotation |-> annotation, url |-> url, owner |-> owner]

\* the records the rows of the model's spreadsheets hold
Records == {
    Record(Cell("Max Muster"), NaN, Cell("foo.socialweb.ch"), NaN),
    Record(Cell("max muster"), NaN, Cell("foo.socialweb.ch"), NaN),
    Record(Cell(" Max Muster "), NaN, Cell("https://www.foo.socialweb.ch/"), NaN),
    Record(Cell("Max Muster"), Cell("AG"),
           Cell("foo.socialweb.ch, bar.SocialWeb.ch,foo.socialweb.ch,example.com"),
           Cell("Oberli Pascal")),
    Record(Cell("Team"), Cell("Team"),
           Cell("team.socialweb.ch, Team.SocialWeb.ch,team.socialweb.ch"),
           Cell("Team")),
    Record(Cell("team"), Cell("Team"), Cell("team.socialweb.ch"), Cell("Team")),
    Record(Cell("Zoe Zbinden"), NaN, Cell("example.com"), NaN),
    Record(NaN, NaN, NaN, NaN),
    Record(NaN, NaN, Cell("FOO.SOCIALWEB.CH/login/support"), NaN),
    Record(Cell("Eva Egli"), NaN, Cell("http://[socialweb.ch"), NaN),
    Record(Cell("Bar AG"), NaN, Cell("www. bar.socialweb.ch"), NaN) }

\* the records the rows of a spreadsheet of several rows hold: rows that
\* come to the same tuple, to tuples equal but for letter case, and to the
\* tuple of a static entry
RepeatedRecords == {
    Record(Cell("Max Muster"), NaN, Cell("foo.socialweb.ch"), NaN),
    Record(Cell("max muster"), NaN, Cell("foo.socialweb.ch"), NaN),
    Record(Cell(" Max Muster "), NaN, Cell("https://www.foo.socialweb.ch/"), NaN),
    Record(Cell("Team"), Cell("Team"),
           Cell("team.socialweb.ch, Team.SocialWeb.ch,team.socialweb.ch"),
           Cell("Team")) }

RECURSIVE SeqsUpTo(_, _)
SeqsUpTo(S, n) ==
    IF n = 0 THEN {<<>>}
    ELSE LET P == SeqsUpTo(S, n - 1) IN P \cup {Append(p, x) : p \in P, x \in S}

\* the DataFrame row of a record under a layout
Row(layout, record) ==
    [c \in 1..Len(layout.holds) |-> record[layout.holds[c]]]

\* the model's spreadsheets: up to MaxRows rows under the first layout, up
\* to one row under the others
SheetOf(layout, records) ==
    [load |-> "ok", columns |-> layout.columns,
     rows |-> [k \in 1..Len(records) |-> Row(layout, records[k])]]

Sheets ==
    {[load |-> "missing", columns |-> <<>>, rows |-> <<>>],
     [load |-> "error", columns |-> <<>>, rows |-> <<>>]}
    \cup {SheetOf(StandardLayout, records) :
             records \in SeqsUpTo(Records, 1) \cup SeqsUpTo(RepeatedRecords, MaxRows)}
    \cup {SheetOf(layout, records) :
             layout \in Layouts, records \in SeqsUpTo(Records, 1)}

\* an export left by an earlier run
StaleFile ==
    TextFile(<<HEADER, "Alt Eintrag;;alt.socialweb.ch/login/support/;Unbekannt">>)

InitStage1 ==
    /\ pc = "start"
    /\ sheet \in Sheets
    /\ column_map = <<>>
    /\ entries = {}
    /\ sorted_entries = <<>>
    /\ result1 = "none"
    /\ txt_file \in {NoFile, StaleFile}
    /\ txt_before = txt_file
    /\ first_run = <<>>

\* extractor.load_data: every error of read_excel is caught
LoadData ==
    /\ pc = "start"
    /\ IF sheet.load = "ok"
       THEN pc' = "loaded" /\ UNCHANGED result1
       ELSE pc' = "done" /\ result1' = "False"
    /\ UNCHANGED <<sheet, column_map, entries, sorted_entries, txt_file,
                   txt_before, first_run, url_vars, stage2_vars>>

\* extractor.map_columns
MapColumns ==
    /\ pc = "loaded"
    /\ \E r \in {map_columns(sheet.columns)} :
       IF r.raised
       THEN pc' = "done" /\ result1' = "raised" /\ column_map' = r.map
       ELSE IF ~r.ok
       THEN pc' = "done" /\ result1' = "False" /\ column_map' = r.map
       ELSE pc' = "mapped" /\ column_map' = r.map /\ UNCHANGED result1
    /\ UNCHANGED <<sheet, entries, sorted_entries, txt_file, txt_before,
                   first_run, url_vars, stage2_vars>>

\* entries = extractor.extract_entries()
ExtractEntries ==
    /\ pc = "mapped"
    /\ \E r \in {extract_entries(sheet.rows, column_map)} :
       IF r.raised
       THEN pc' = "done" /\ result1' = "raised" /\ UNCHANGED entries
       ELSE pc' = "extracted" /\ entries' = r.entries /\ UNCHANGED result1
    /\ UNCHANGED <<sheet, column_map, sorted_entries, txt_file, txt_before,
                   first_run, url_vars, stage2_vars>>

\* the custom entries are added and the set is sorted by display name
AddCustomAndSort ==
    /\ pc = "extracted"
    /\ entries' = add_custom_entries(entries)
    /\ sorted_entries' \in sorted_orders(entries')
    /\ pc' = "sorted"
    /\ UNCHANGED <<sheet, column_map, result1, txt_file, txt_before, first_run,
                   url_vars, stage2_vars>>

\* TXTExporter.export: open(output_path, 'w') fails and leaves the file alone
ExportOpenFails ==
    /\ pc = "sorted"
    /\ pc' = "done"
    /\ result1' = "False"
    /\ UNCHANGED <<sheet, column_map, entries, sorted_entries, txt_file,
                   txt_before, first_run, url_vars, stage2_vars>>

\* TXTExporter.export: the file is opened, which creates or truncates it,
\* and writing fails: n lines have reached the file and some of the bytes of
\* the next one, from none of them to all of it but its line break
ExportWriteFails ==
    /\ pc = "sorted"
    /\ \E lines \in {export_lines(sorted_entries)} :
       \E n \in 0..(Len(lines) - 1) :
       \E cut \in line_cuts(lines[n + 1]) :
          txt_file' = cut_file(SubSeq(lines, 1, n), cut)
    /\ pc' = "done"
    /\ result1' = "False"
    /\ UNCHANGED <<sheet, column_map, entries, sorted_entries, txt_before,
                   first_run, url_vars, stage2_vars>>

\* TXTExporter.export: the header and one line per entry are written
ExportSucceeds ==
    /\ pc = "sorted"
    /\ txt_file' = TextFile(export_lines(sorted_entries))
    /\ pc' = "done"
    /\ result1' = "True"
    /\ UNCHANGED <<sheet, column_map, entries, sorted_entries, txt_before,
                   first_run, url_vars, stage2_vars>>

Stage1 ==
    \/ LoadData
    \/ MapColumns
    \/ ExtractEntries
    \/ AddCustomAndSort
    \/ ExportOpenFails
    \/ ExportWriteFails
    \/ ExportSucceeds

(***************************************************************************)
(* SpecExtract: one run of stage 1.                                        *)
(***************************************************************************)
InitExtract ==
    /\ UrlIdle
    /\ InitStage1
    /\ Stage2Idle

NextExtract == Stage1

SpecExtract == InitExtract /\ [][NextExtract]_vars

(***************************************************************************)
(* SpecRerun: stage 1 run again on the same spreadsheet.                   *)
(***************************************************************************)
InitRerun == InitExtract

\* a second process runs process_excel_to_txt on the same spreadsheet
Rerun ==
    /\ pc = "done"
    /\ result1 = "True"
    /\ first_run = <<>>
    /\ first_run' = txt_file.lines
    /\ pc' = "start"
    /\ column_map' = <<>>
    /\ entries' = {}
    /\ sorted_entries' = <<>>
    /\ result1' = "none"
    /\ txt_before' = txt_file
    /\ UNCHANGED <<sheet, txt_file, url_vars, stage2_vars>>

NextRerun == Stage1 \/ Rerun

SpecRerun == InitRerun /\ [][NextRerun]_vars

(***************************************************************************)
(* Stage 2: generate_html.                                                 *)
(***************************************************************************)
\* entries = TXTParser.parse(input_path); no entries: nothing is generated
Parse ==
    /\ pc2 = "start"
    /\ parsed' = parse(txt_file)
    /\ IF parsed' = <<>>
       THEN pc2' = "done" /\ result2' = "False"
       ELSE pc2' = "parsed" /\ UNCHANGED result2
    /\ UNCHANGED <<html_file, html_before, txt_file, url_vars, stage1_vars>>

\* HTMLGenerator.generate: open(output_path, 'w') fails
GenerateOpenFails ==
    /\ pc2 = "parsed"
    /\ pc2' = "done"
    /\ result2' = "False"
    /\ UNCHANGED <<parsed, html_file, html_before, txt_file, url_vars, stage1_vars>>

\* HTMLGenerator.generate: the file is opened, which creates or truncates
\* it, and the write fails
GenerateWriteFails ==
    /\ pc2 = "parsed"
    /\ html_file' = [exists |-> TRUE, complete |-> FALSE, doc |-> <<>>]
    /\ pc2' = "done"
    /\ result2' = "False"
    /\ UNCHANGED <<parsed, html_before, txt_file, url_vars, stage1_vars>>

\* HTMLGenerator.generate: the document is written
GenerateSucceeds ==
    /\ pc2 = "parsed"
    /\ html_file' = [exists |-> TRUE, complete |-> TRUE,
                     doc |-> <<html_document(parsed)>>]
    /\ pc2' = "done"
    /\ result2' = "True"
    /\ UNCHANGED <<parsed, html_before, txt_file, url_vars, stage1_vars>>

Stage2 ==
    \/ Parse
    \/ GenerateOpenFails
    \/ GenerateWriteFails
    \/ GenerateSucceeds

\* a page left by an earlier run
StaleHtml == [exists |-> TRUE, complete |-> TRUE, doc |-> <<html_document(<<>>)>>]

(***************************************************************************)
(* Spec: the pipeline, stage 1 and then stage 2 on the file stage 1 left.  *)
(***************************************************************************)
Init ==
    /\ UrlIdle
    /\ InitStage1
    /\ Len(sheet.rows) <= MaxPipelineRows
    /\ pc2 = "wait"
    /\ parsed = <<>>
    /\ html_file \in {NoHtml, StaleHtml}
    /\ html_before = html_file
    /\ result2 = "none"

\* create_html.py is started once extract_url.py has ended, however it has
\* ended, on the file that is there
StartStage2 ==
    /\ pc = "done"
    /\ pc2 = "wait"
    /\ pc2' = "start"
    /\ UNCHANGED <<parsed, html_file, html_before, result2, txt_file, url_vars,
                   stage1_vars>>

Next == Stage1 \/ StartStage2 \/ Stage2

Spec == Init /\ [][Next]_vars

(***************************************************************************)
(* SpecHTML: stage 2 on a text file of any content.                        *)
(***************************************************************************)
\* the lines of the model's text files
Lines == {
    "Max Muster;;foo.socialweb.ch/login/support/;Unbekannt",
    "max muster;AG;http://bar.socialweb.ch/login/support/",
    ";;example.ch;",
    " Zoe ; ; ;x",
    ";; ;x",
    ";;;",
    "Anna;AG",
    "",
    "  ",
    "9 Leben;;;Team",
    "^bi;;;",
    "&ein AG;;stein.socialweb.ch;x" }

TextFiles ==
    {NoFile, [exists |-> TRUE, readable |-> FALSE, lines |-> <<>>, rest |-> ""],
     TextFile(<<>>)}
    \cup {TextFile(<<HEADER>> \o body) : body \in SeqsUpTo(Lines, MaxLines)}
    \cup {[TextFile(<<HEADER>> \o body) EXCEPT !.rest = last] :
              body \in SeqsUpTo(Lines, MaxLines - 1), last \in Lines \ {""}}

InitHTML ==
    /\ UrlIdle
    /\ Stage1Idle
    /\ txt_file \in TextFiles
    /\ pc2 = "start"
    /\ parsed = <<>>
    /\ html_file \in {NoHtml, StaleHtml}
    /\ html_before = html_file
    /\ result2 = "none"

NextHTML == Stage2

SpecHTML == InitHTML /\ [][NextHTML]_vars

(***************************************************************************)
(* Properties of the url normalizer, checked under SpecURL.                *)
(***************************************************************************)
\* the input as urlparse sees it: tab, CR and LF are discarded
withoutUnsafe(s) == removeChar(removeChar(removeChar(s, "\t"), "\r"), "\n")

\* number of places where p occurs in s
Occurrences(s, p) == Cardinality(Positions(s, p))

\* the url parsed by add_support_path when it gets past the early returns
ParsedInput == urlparse("https://" \o clean_url(strip(url_in)))

\* C1: for every input u that does not contain '/login/support/',
\* add_support_path(add_support_path(u)) equals add_support_path(u).
C1_Idempotent ==
    (upc = "twice" /\ ~contains(url_in, SUPPORT_PATH))
        => (~res2.raised /\ res2.value = res1.value)

\* C2 as stated: for every non-empty input that does not contain
\* '/login/support/', the result contains '/login/support/' exactly once.
C2_Original ==
    (upc # "input" /\ url_in # "" /\ ~contains(url_in, SUPPORT_PATH)
        /\ ~res1.raised)
        => Occurrences(res1.value, SUPPORT_PATH) = 1

C2_Applies ==
    /\ upc # "input"
    /\ strip(url_in) # ""
    /\ ~contains(withoutUnsafe(url_in), "login/support")
    /\ ~res1.raised

\* C2 amended: for every input that is not blank and in which 'login/support'
\* does not occur (tab, CR and LF ignored), the url add_support_path returns
\* contains '/login/support/' exactly once; when the url has a host, the
\* sub-path comes before any query string or fragment.
C2_AppendedOnce ==
    C2_Applies =>
        /\ Occurrences(res1.value, SUPPORT_PATH) = 1
        /\ ParsedInput.netloc # "" =>
              \A c \in {"?", "#"} :
                  \/ find(res1.value, c, 1) = 0
                  \/ find(res1.value, c, 1)
                        >= find(res1.value, SUPPORT_PATH, 1) + Len(SUPPORT_PATH)

\* a url with a host and a query string got the sub-path in between
C2_Witness ==
    /\ C2_Applies
    /\ ParsedInput.netloc = "a.ch"
    /\ ParsedInput.query # ""
    /\ startswith(res1.value, "a.ch" \o SUPPORT_PATH \o "?")

\* C3 as stated: in every url add_support_path returns, 'login/support' occurs
\* at most once.
C3_Original ==
    (upc # "input" /\ ~res1.raised)
        => Occurrences(res1.value, "login/support") <= 1

\* the input holds the sub-path at most once, tab, CR and LF ignored, and
\* no tab, CR or LF stands inside that occurrence
C3_Applies ==
    /\ upc # "input"
    /\ ~res1.raised
    /\ Occurrences(withoutUnsafe(url_in), SUPPORT_PATH) <= 1
    /\ Occurrences(url_in, SUPPORT_PATH)
           = Occurrences(withoutUnsafe(url_in), SUPPORT_PATH)

\* C3 amended: when the input holds '/login/support/' at most once (tab, CR and
\* LF ignored) and no tab, CR or LF stands inside that occurrence, the url
\* add_support_path returns holds '/login/support/' at most once: the
\* normalizer never duplicates the canonical sub-path.
C3_NoDuplicate ==
    C3_Applies => Occurrences(res1.value, SUPPORT_PATH) <= 1

\* an input that ends with the sub-path already: nothing is appended
C3_Witness ==
    /\ C3_Applies
    /\ Occurrences(url_in, SUPPORT_PATH) = 1
    /\ endswith(url_in, SUPPORT_PATH)
    /\ Occurrences(res1.value, SUPPORT_PATH) = 1

\* the cleaned form of the input already carries the sub-path
C4_Applies ==
    /\ upc # "input"
    /\ \/ contains(clean_url(strip(url_in)), SUPPORT_PATH)
       \/ endswith(clean_url(strip(url_in)), "/login/support")

\* the input without its scheme prefix
SchemeRemoved(s) ==
    IF startswith(s, "https://") THEN From(s, Len("https://") + 1)
    ELSE IF startswith(s, "http://") THEN From(s, Len("http://") + 1)
    ELSE s

\* C4 as stated: such an input is returned with only its scheme prefix removed.
C4_Original ==
    C4_Applies => res1 = Return(SchemeRemoved(url_in))

\* surrounding white space, then 'https://', then 'http://', then 'www.',
\* each removed if the string starts with it
Trimmed(s) ==
    LET a == strip(s)
        b == IF startswith(a, "https://") THEN From(a, 9) ELSE a
        c == IF startswith(b, "http://") THEN From(b, 8) ELSE b
    IN  IF startswith(c, "www.") THEN From(c, 5) ELSE c

\* C4 amended: an input whose cleaned form contains '/login/support/' or ends
\* with '/login/support' is returned with its surrounding white space and its
\* leading 'https://', 'http://' and 'www.' prefixes (each at most once, in
\* this order) removed, and nothing else changed or appended.
C4_ReturnedCleaned ==
    C4_Applies => res1 = Return(Trimmed(url_in))

\* a url with scheme and www. prefix that already carries the sub-path
C4_Witness ==
    /\ C4_Applies
    /\ startswith(url_in, "https://www.")
    /\ res1.value = From(url_in, 13)

(***************************************************************************)
(* Properties of stage 1, checked under SpecExtract, SpecRerun and Spec.   *)
(***************************************************************************)
\* process_excel_to_txt returned True
Exported == pc = "done" /\ result1 = "True"

\* the spreadsheet loaded and map_columns resolved every field: column_map
\* holds the four columns
Resolved == sheet.load = "ok" /\ Len(column_map) = Len(COLUMN_MAPPING)

\* the cell of a field in row k
CellOf(k, field) == sheet.rows[k][column_map[FieldIndex(field)]]

\* the url cell of row k
UrlCell(k) == CellOf(k, "webadresse")

\* the value of a field of row k as the tuples carry it
FieldOf(k, field, default) ==
    IF CellOf(k, field).isna THEN default ELSE strip(CellOf(k, field).str)

\* the rows stage 1 processes
QualifyingRows ==
    {k \in 1..Len(sheet.rows) :
        ~UrlCell(k).isna /\ contains(lower(UrlCell(k).str), "socialweb.ch")}

\* the comma-separated addresses of row k that stage 1 keeps: <<j, url>>
QualifyingParts(k) ==
    LET parts == split(UrlCell(k).str, ",")
        urls == {<<j, strip(parts[j])>> : j \in 1..Len(parts)}
    IN  {u \in urls : u[2] # "" /\ contains(lower(u[2]), "socialweb.ch")}

\* every production of a 4-tuple in a run: <<k, j, tuple>> for the j-th
\* address of row k, <<0, j, tuple>> for the j-th static entry
RowProductions ==
    UNION {{<<k, u[1], <<FieldOf(k, "anzeigename", ""), FieldOf(k, "ergaenzung", ""),
                         add_support_path(u[2]).value,
                         FieldOf(k, "projektleitung", "Unbekannt")>>>> :
               u \in QualifyingParts(k)} : k \in QualifyingRows}

\* the static entries as the output carries them: the url is the host of
\* the entry followed by '.socialweb.ch/login/support/'
StaticHost(j) ==
    Before(get_custom_entries[j][3], find(get_custom_entries[j][3], ".", 1))

StaticTuple(j) ==
    <<get_custom_entries[j][1], get_custom_entries[j][2],
      StaticHost(j) \o ".socialweb.ch/login/support/", get_custom_entries[j][4]>>

StaticTuples == {StaticTuple(j) : j \in 1..Len(get_custom_entries)}

StaticProductions == {<<0, j, StaticTuple(j)>> : j \in 1..Len(get_custom_entries)}

Productions == RowProductions \cup StaticProductions

Produced == {p[3] : p \in Productions}

\* the lines of the output file after the header
BodyLines == 2..Len(txt_file.lines)

LinesFor(t) == {n \in BodyLines : txt_file.lines[n] = entry_line(t)}

\* a tuple with the letter case of its fields ignored
Folded(t) == <<lower(t[1]), lower(t[2]), lower(t[3]), lower(t[4])>>

\* the pairs of tuples of P that differ by letter case only
CaseVariants(P) ==
    {p \in P \X P :
        /\ p[1] # p[2]
        /\ \A i \in 1..4 : Len(p[1][i]) = Len(p[2][i])
        /\ Folded(p[1]) = Folded(p[2])}

\* C5: in the output of a successful run of stage 1, every 4-tuple that was
\* produced, once or several times, has exactly one line, and there are as
\* many lines as distinct tuples: tuples that differ in any field, also only
\* by letter case, keep a line each.
C5_Deduplicated ==
    Exported =>
        LET P == Produced IN
        /\ txt_file.lines[1] = HEADER
        /\ \A t \in P : Cardinality(LinesFor(t)) = 1
        /\ Cardinality(BodyLines) = Cardinality(P)
        /\ \A v \in CaseVariants(P) : LinesFor(v[1]) # LinesFor(v[2])

\* a run in which two rows produced the same tuple, two addresses of one
\* row produced the same tuple, a row produced the tuple of a static entry
\* again, and two tuples differ by letter case only
C5_Witness ==
    /\ Exported
    /\ \E p, q \in RowProductions : p[1] # q[1] /\ p[3] = q[3]
    /\ \E p, q \in RowProductions : p[1] = q[1] /\ p[2] # q[2] /\ p[3] = q[3]
    /\ \E p \in RowProductions : \E q \in StaticProductions : p[3] = q[3]
    /\ CaseVariants(Produced) # {}

\* the output file is the header line followed by the static entries only
OnlyStaticEntries ==
    /\ txt_file.exists
    /\ Len(txt_file.lines) = 1 + Len(get_custom_entries)
    /\ txt_file.lines[1] = HEADER
    /\ {txt_file.lines[n] : n \in BodyLines} = {entry_line(t) : t \in StaticTuples}

\* C6 as stated: when the spreadsheet loads, its columns resolve and no row's
\* url field contains 'socialweb.ch', the run returns True and the output is
\* the header followed by exactly the 11 static entries.
C6_Original ==
    (pc = "done" /\ Resolved
        /\ \A k \in 1..Len(sheet.rows) :
              UrlCell(k).isna \/ ~contains(UrlCell(k).str, "socialweb.ch"))
        => (result1 = "True" /\ OnlyStaticEntries)

C6_Applies ==
    /\ pc = "done"
    /\ Resolved
    /\ QualifyingRows = {}

\* C6 amended: when the spreadsheet loads, its columns resolve and no row's
\* url field contains 'socialweb.ch' in any letter case, the run raises
\* nothing and hands exactly the 11 static entries to the export; it returns
\* True unless writing the output file fails, and when it returns True the
\* output file is the header line followed by exactly the 11 static entries,
\* each with its url normalized to '<host>.socialweb.ch/login/support/'.  In
\* every successful run all 11 static entries are present in the output.
C6_StaticEntries ==
    /\ C6_Applies =>
          /\ result1 \in {"True", "False"}
          /\ {sorted_entries[n] : n \in 1..Len(sorted_entries)} = StaticTuples
          /\ Len(sorted_entries) = Len(get_custom_entries)
          /\ result1 = "True" => OnlyStaticEntries
    /\ Exported =>
          \A t \in StaticTuples : \E n \in BodyLines : txt_file.lines[n] = entry_line(t)

\* a spreadsheet with rows, none of them qualifying, exported with success
C6_Witness ==
    /\ C6_Applies
    /\ Len(sheet.rows) > 0
    /\ \E k \in 1..Len(sheet.rows) : ~UrlCell(k).isna
    /\ result1 = "True"
    /\ OnlyStaticEntries

\* C7: a second run of stage 1 on the same spreadsheet writes the same
\* sequence of lines as the first.
C7_Deterministic ==
    (Exported /\ first_run # <<>>) => txt_file.lines = first_run

(***************************************************************************)
(* Properties of the stage boundaries, checked under Spec and SpecHTML.    *)
(***************************************************************************)
\* C8: a stage that returns False leaves its output file as it was when the
\* run began, and an output file is left behind complete only.
C8_FailureWritesNothing ==
    /\ (pc = "done" /\ result1 = "False") => txt_file = txt_before
    /\ (pc2 = "done" /\ result2 = "False") => html_file = html_before
    /\ html_file.exists => html_file.complete

\* C9: each stage ends by returning a boolean; no exception leaves it.
C9_NoException ==
    /\ pc = "done" => result1 \in {"True", "False"}
    /\ pc2 = "done" => result2 \in {"True", "False"}

\* C10: no Entry in the result of TXTParser.parse has both an empty
\* anzeigename and an empty webadresse.
C10_NameOrUrl ==
    \A n \in 1..Len(parsed) :
        parsed[n].anzeigename # "" \/ parsed[n].webadresse # ""

(***************************************************************************)
(* Properties of TXTParser.parse, checked under SpecHTML and Spec.         *)
(***************************************************************************)
\* generate_html has called TXTParser.parse on a file it could read
Parsed == pc2 \in {"parsed", "done"} /\ txt_file.exists /\ txt_file.readable

\* the lines after the first
DataLines ==
    IF read_lines(txt_file) = <<>> THEN <<>> ELSE Tail(read_lines(txt_file))

\* the fields of a line, split on ';'
Fields(line) == split(strip(line), ";")

\* the four fields a record holds, as the constructor was given them
Core(entry) ==
    [anzeigename |-> entry.anzeigename, ergaenzung |-> entry.ergaenzung,
     webadresse |-> entry.webadresse, projektleitung |-> entry.projektleitung]

\* the record of fields 1 to 3 and the owner, each trimmed, the url with a
\* scheme
FieldsRecord(f) ==
    [anzeigename |-> strip(f[1]),
     ergaenzung |-> strip(f[2]),
     webadresse |-> IF strip(f[3]) = "" THEN ""
                    ELSE IF startswith(strip(f[3]), "http://")
                            \/ startswith(strip(f[3]), "https://")
                         THEN strip(f[3])
                         ELSE "https://" \o strip(f[3]),
     projektleitung |-> IF Len(f) > 3 THEN strip(f[4]) ELSE ""]

RECURSIVE Flatten(_)
Flatten(seqs) ==
    IF seqs = <<>> THEN <<>> ELSE Head(seqs) \o Flatten(Tail(seqs))

ParsedCores == [k \in 1..Len(parsed) |-> Core(parsed[k])]

\* C11 as stated: the first line is skipped; of the later lines, a blank one
\* and one with fewer than 3 fields give no record, and every other line
\* gives the record of its fields 1 to 3 with field 4, or "", as the owner.
C11_Original ==
    Parsed =>
        ParsedCores =
            Flatten([k \in 1..Len(DataLines) |->
                IF strip(DataLines[k]) = "" \/ Len(Fields(DataLines[k])) < 3
                THEN <<>>
                ELSE <<FieldsRecord(Fields(DataLines[k]))>>])

\* the line has at least 3 fields and its field 1 or its field 3 is not empty
HasNameOrUrl(f) == Len(f) >= 3 /\ (f[1] # "" \/ f[3] # "")

\* C11: the first line is skipped; of the later lines, a blank one, one with
\* fewer than 3 fields and one whose fields 1 and 3 are both empty give no
\* record, and every other line gives the record of its trimmed fields 1 to
\* 3 with the trimmed field 4, or "" when there are exactly 3 fields, as the
\* owner; the records are in the order of the lines.
C11_ParsedLines ==
    Parsed =>
        ParsedCores =
            Flatten([k \in 1..Len(DataLines) |->
                IF strip(DataLines[k]) # "" /\ HasNameOrUrl(Fields(DataLines[k]))
                THEN <<FieldsRecord(Fields(DataLines[k]))>>
                ELSE <<>>])

\* a line with 2 fields was dropped and a line with exactly 3 fields gave
\* the only record, with an empty owner
C11_Witness ==
    /\ Parsed
    /\ Len(DataLines) = 2
    /\ Len(Fields(DataLines[1])) = 2
    /\ Len(Fields(DataLines[2])) = 3
    /\ Len(parsed) = 1
    /\ parsed[1].anzeigename = "max muster"
    /\ parsed[1].projektleitung = ""

\* the fields of the tuples stage 1 wrote hold no ';' (and, as every cell of
\* the model, no line break)
PlainFields ==
    \A k \in 1..Len(sorted_entries) : \A j \in 1..4 :
        ~contains(sorted_entries[k][j], ";")

\* C12: when stage 1 has succeeded and the fields it wrote hold no ';' and
\* no line break, TXTParser.parse on its file returns one record per data
\* line, in file order, with the name, the annotation and the owner that
\* were written and with the url "https://" followed by the written url;
\* generate_html then does not end with 'No entries to process'.
C12_RoundTrip ==
    (Exported /\ Parsed /\ PlainFields) =>
        /\ Len(parsed) = Len(sorted_entries)
        /\ Len(parsed) = Len(DataLines)
        /\ \A k \in 1..Len(parsed) :
              Core(parsed[k]) =
                  [anzeigename |-> sorted_entries[k][1],
                   ergaenzung |-> sorted_entries[k][2],
                   webadresse |-> "https://" \o sorted_entries[k][3],
                   projektleitung |-> sorted_entries[k][4]]
        /\ parsed # <<>>

(***************************************************************************)
(* Properties of the generated document, checked under SpecHTML.           *)
(***************************************************************************)
\* generate_html has written the document
Generated == pc2 = "done" /\ result2 = "True"

Document == html_file.doc[1]

\* the 26 Latin capital letters
LatinLetters == {Char(ascii_uppercase, k) : k \in 1..Len(ascii_uppercase)}

\* the url without its scheme
SchemeStripped(url) ==
    IF startswith(url, "https://") THEN From(url, Len("https://") + 1)
    ELSE IF startswith(url, "http://") THEN From(url, Len("http://") + 1)
    ELSE url

\* the sort key: the name if it is not empty, else the url without scheme
SortKey(entry) ==
    IF entry.anzeigename # "" THEN entry.anzeigename
    ELSE SchemeStripped(entry.webadresse)

\* the bucket of a record: the upper case of the first character of its
\* sort key if that is a Latin letter, else the fallback "#"
FirstLetter(entry) ==
    IF SortKey(entry) = "" THEN "#"
    ELSE IF upperChar(Char(SortKey(entry), 1)) \in LatinLetters
         THEN upperChar(Char(SortKey(entry), 1))
         ELSE "#"

\* the section with this heading shows the record
ShownUnder(entry, heading) ==
    \E n \in 1..Len(Document.sections) :
        /\ Document.sections[n].heading = heading
        /\ \E j \in 1..Len(Document.sections[n].items) :
              /\ Document.sections[n].items[j].title = entry.display_name
              /\ Document.sections[n].items[j].href = entry.webadresse
              /\ Document.sections[n].items[j].search_text = entry.search_text

\* C13: for every record, Entry.get_first_letter is the upper case of the
\* first character of the sort key (the name, or else the url without its
\* scheme) when that is one of the 26 Latin letters and "#" otherwise, and
\* the document shows the record in the section of that bucket.
C13_FirstLetter ==
    Generated =>
        \A k \in 1..Len(parsed) :
            /\ get_first_letter(parsed[k]) = FirstLetter(parsed[k])
            /\ ShownUnder(parsed[k], FirstLetter(parsed[k]))

\* the labels of the navigation: A to Z, then the fallback
NavigationLabels ==
    [k \in 1..(Len(ascii_uppercase) + 1) |->
        IF k <= Len(ascii_uppercase) THEN Char(ascii_uppercase, k) ELSE "#"]

\* a navigation entry is a link, not a placeholder
Active(entry) == entry.href # ""

\* the id a link points to
Target(entry) == From(entry.href, 2)

\* C14: the navigation has 27 entries, A to Z and then "#"; an entry is an
\* active link exactly if a record is in its bucket; the target of every
\* active link is the id of exactly one section, and every section is the
\* target of exactly one active link.
C14_Navigation ==
    Generated =>
        /\ Len(Document.navigation) = 27
        /\ \A k \in 1..Len(Document.navigation) :
              /\ k <= Len(NavigationLabels)
              /\ Document.navigation[k].label = NavigationLabels[k]
              /\ Active(Document.navigation[k]) <=>
                    \E n \in 1..Len(parsed) :
                        get_first_letter(parsed[n]) = NavigationLabels[k]
              /\ Active(Document.navigation[k]) =>
                    Cardinality({n \in 1..Len(Document.sections) :
                        Document.sections[n].id = Target(Document.navigation[k])}) = 1
        /\ \A n \in 1..Len(Document.sections) :
              Cardinality({k \in 1..Len(Document.navigation) :
                  /\ Active(Document.navigation[k])
                  /\ Target(Document.navigation[k]) = Document.sections[n].id}) = 1

\* the place of a bucket in the navigation: 1 to 26 for A to Z, 27 for "#"
\* (0 for a heading that is no navigation label)
NavigationPlace(heading) ==
    IF \E k \in 1..Len(NavigationLabels) : NavigationLabels[k] = heading
    THEN CHOOSE k \in 1..Len(NavigationLabels) : NavigationLabels[k] = heading
    ELSE 0

\* the list items of the document: <<section, place in the section>>
ListItems ==
    {p \in (1..Len(Document.sections)) \X (1..Len(parsed)) :
        p[2] <= Len(Document.sections[p[1]].items)}

ItemAt(p) == Document.sections[p[1]].items[p[2]]

\* the sections of the navigation's buckets follow the order of the
\* navigation, A to Z and then "#"
SectionsInNavigationOrder ==
    \A n, m \in 1..Len(Document.sections) :
        (/\ n < m
         /\ NavigationPlace(Document.sections[n].heading) > 0
         /\ NavigationPlace(Document.sections[m].heading) > 0)
            => NavigationPlace(Document.sections[n].heading)
                   < NavigationPlace(Document.sections[m].heading)

\* the list items are the records, each once
OneItemPerRecord ==
    /\ \A n \in 1..Len(Document.sections) :
          Len(Document.sections[n].items) <= Len(parsed)
    /\ \A k \in 1..Len(parsed) :
          Cardinality({p \in ListItems : ItemAt(p) = render_entry(parsed[k])})
              = Cardinality({n \in 1..Len(parsed) :
                                render_entry(parsed[n]) = render_entry(parsed[k])})
    /\ \A p \in ListItems :
          \E k \in 1..Len(parsed) : ItemAt(p) = render_entry(parsed[k])

\* within a section the sort keys, in lower case, do not decrease
ItemsInKeyOrder ==
    \A p \in ListItems :
        p[2] > 1 =>
            ~strLess(lower(ItemAt(p).title),
                     lower(ItemAt(<<p[1], p[2] - 1>>).title))

\* the footer shows the number of list items
FooterCountsItems == Cardinality(ListItems) = Document.total_entries

\* C15: the sections are emitted in the order of the navigation entries (A
\* to Z, then the fallback "#"); each record is one list item of one
\* section; the items of a section are in non-decreasing order of the lower
\* case sort key; the footer shows the number of list items.
C15_Sections ==
    Generated =>
        /\ SectionsInNavigationOrder
        /\ OneItemPerRecord
        /\ ItemsInKeyOrder
        /\ FooterCountsItems

=============================================================================
